---- MODULE Spec2Model ----
(***************************************************************************)
(* A model of src/lib/core/json-helper.py: the command line of the JSON    *)
(* helper (encode / decode / extract), one process run at a time.          *)
(*                                                                         *)
(* Text is modelled character by character: a text is a sequence of        *)
(* one-character strings.  Standard output is the sequence of the texts    *)
(* handed to print(), each of which print() ends with a newline; standard  *)
(* error is the sequence of diagnostics written.  A JSON value is a tagged *)
(* record: [t |-> "null"], [t |-> "bool", b], [t |-> "int", n],            *)
(* [t |-> "float", s] (s its textual form), [t |-> "str", s],              *)
(* [t |-> "list", items], [t |-> "dict", keys, vals] (insertion ordered).  *)
(***************************************************************************)
EXTENDS Integers, Sequences, FiniteSets, TLC

\* ------------------------------------------------------------------ bounds

\* Longest question / prompt text the escaping is exercised on.
MaxStrLen == 3

\* Most questions in an encoded record.
MaxQuestions == 2

\* ------------------------------------------------------------- characters

NL == "\n"
BS == "\\"
SQ == "'"
DQ == "\""

\* The characters texts are drawn from: backslash, single quote, newline,
\* the ordinary letter n, and the double quote (ordinary for the shell
\* escaping, special for JSON).
Alphabet == {BS, SQ, NL, "n", DQ}

DigitChars == <<"0", "1", "2", "3", "4", "5", "6", "7", "8", "9">>

Digits == {DigitChars[k] : k \in 1..10}

DigitVal(c) == (CHOOSE k \in 1..10 : DigitChars[k] = c) - 1

\* All texts over Alphabet of length at most k.
RECURSIVE Texts(_)
Texts(k) ==
  IF k = 0 THEN {<<>>}
  ELSE LET T == Texts(k - 1)
       IN  T \cup {Append(t, c) : t \in {u \in T : Len(u) = k - 1}, c \in Alphabet}

\* The concatenation of a sequence of texts.
RECURSIVE Concat(_)
Concat(ts) == IF ts = <<>> THEN <<>> ELSE Head(ts) \o Concat(Tail(ts))

\* str.join: the texts separated by sep.
RECURSIVE Join(_, _)
Join(sep, ts) ==
  IF ts = <<>> THEN <<>>
  ELSE IF Len(ts) = 1 THEN ts[1]
  ELSE ts[1] \o sep \o Join(sep, Tail(ts))

\* str.replace(old, new): every non-overlapping occurrence, left to right.
RECURSIVE Replace(_, _, _)
Replace(s, old, new) ==
  IF Len(s) < Len(old) THEN s
  ELSE IF SubSeq(s, 1, Len(old)) = old
       THEN new \o Replace(SubSeq(s, Len(old) + 1, Len(s)), old, new)
       ELSE <<Head(s)>> \o Replace(Tail(s), old, new)

\* str(n) of a Python int.
RECURSIVE NatToStr(_)
NatToStr(n) ==
  IF n < 10 THEN <<DigitChars[n + 1]>>
  ELSE Append(NatToStr(n \div 10), DigitChars[(n % 10) + 1])

IntToStr(n) == IF n < 0 THEN <<"-">> \o NatToStr(-n) ELSE NatToStr(n)

\* The value of a non-empty run of digits.
RECURSIVE DigitsToNat(_)
DigitsToNat(ds) ==
  IF Len(ds) = 1 THEN DigitVal(ds[1])
  ELSE 10 * DigitsToNat(SubSeq(ds, 1, Len(ds) - 1)) + DigitVal(ds[Len(ds)])

\* ------------------------------------------------------------ JSON values

JNull == [t |-> "null"]
JBool(b) == [t |-> "bool", b |-> b]
JInt(n) == [t |-> "int", n |-> n]
JFloat(s) == [t |-> "float", s |-> s]
JStr(s) == [t |-> "str", s |-> s]
JList(items) == [t |-> "list", items |-> items]
JDict(keys, vals) == [t |-> "dict", keys |-> keys, vals |-> vals]

\* The keys of the analysis record.
K_is_ambiguous == <<"i", "s", "_", "a", "m", "b", "i", "g", "u", "o", "u", "s">>
K_ambiguity_score == <<"a", "m", "b", "i", "g", "u", "i", "t", "y", "_", "s", "c", "o", "r", "e">>
K_reasons == <<"r", "e", "a", "s", "o", "n", "s">>
K_questions == <<"q", "u", "e", "s", "t", "i", "o", "n", "s">>
K_original_prompt == <<"o", "r", "i", "g", "i", "n", "a", "l", "_", "p", "r", "o", "m", "p", "t">>

\* key in d, and d[key], of a dict.
HasKey(d, k) == \E j \in 1..Len(d.keys) : d.keys[j] = k

Lookup(d, k) == d.vals[CHOOSE j \in 1..Len(d.keys) : d.keys[j] = k]

\* dict.get(key) with the default left out: None for a key that is not there.
GetWithoutDefault(d, k, default) == IF HasKey(d, k) THEN Lookup(d, k) ELSE JNull

\* dict.get(key, default).
Get(d, k, default) == IF HasKey(d, k) THEN Lookup(d, k) ELSE default

\* d[key] = value while a document is parsed: a repeated key keeps its place
\* and takes the last value.
Put(d, k, v) ==
  IF HasKey(d, k)
  THEN JDict(d.keys, [j \in 1..Len(d.keys) |-> IF d.keys[j] = k THEN v ELSE d.vals[j]])
  ELSE JDict(Append(d.keys, k), Append(d.vals, v))

\* ---------------------------------------------------------- json.dumps

L_true == <<"t", "r", "u", "e">>
L_false == <<"f", "a", "l", "s", "e">>
L_null == <<"n", "u", "l", "l">>

\* One character of a JSON string literal (ensure_ascii does not matter for
\* the characters of the model).
JsonEscapeChar(c) ==
  IF c = DQ THEN <<BS, DQ>>
  ELSE IF c = BS THEN <<BS, BS>>
  ELSE IF c = NL THEN <<BS, "n">>
  ELSE <<c>>

JsonString(s) == <<DQ>> \o Concat([j \in 1..Len(s) |-> JsonEscapeChar(s[j])]) \o <<DQ>>

Spaces(k) == [j \in 1..k |-> " "]

\* json.dumps(v, indent=ind) at nesting depth lvl; ind = -1 stands for
\* indent=None (the separators are then ", " and ": ").
RECURSIVE JsonDumpsAt(_, _, _)
JsonDumpsAt(v, ind, lvl) ==
  LET open == IF ind < 0 THEN <<>> ELSE <<NL>> \o Spaces(ind * (lvl + 1))
      sep == IF ind < 0 THEN <<",", " ">> ELSE <<",", NL>> \o Spaces(ind * (lvl + 1))
      close == IF ind < 0 THEN <<>> ELSE <<NL>> \o Spaces(ind * lvl)
  IN  CASE v.t = "null" -> L_null
        [] v.t = "bool" -> (IF v.b THEN L_true ELSE L_false)
        [] v.t = "int" -> IntToStr(v.n)
        [] v.t = "float" -> v.s
        [] v.t = "str" -> JsonString(v.s)
        [] v.t = "list" ->
             IF v.items = <<>> THEN <<"[", "]">>
             ELSE <<"[">> \o open
                  \o Join(sep, [j \in 1..Len(v.items) |-> JsonDumpsAt(v.items[j], ind, lvl + 1)])
                  \o close \o <<"]">>
        [] v.t = "dict" ->
             IF v.keys = <<>> THEN <<"{", "}">>
             ELSE <<"{">> \o open
                  \o Join(sep, [j \in 1..Len(v.keys) |->
                           JsonString(v.keys[j]) \o <<":", " ">>
                           \o JsonDumpsAt(v.vals[j], ind, lvl + 1)])
                  \o close \o <<"}">>

\* json.dumps(v)
JsonDumps(v) == JsonDumpsAt(v, -1, 0)

\* json.dumps(v, ensure_ascii=False, indent=2)
JsonDumpsIndent2(v) == JsonDumpsAt(v, 2, 0)

\* ---------------------------------------------------------- json.loads

Whitespace == {" ", NL, "\t", "\r"}

\* The result of a scan: ok, the value, and the index after it.
Scanned(v, e) == [ok |-> TRUE, val |-> v, end |-> e]

ScanFail == [ok |-> FALSE, val |-> JNull, end |-> 0]

At(s, i) == IF i >= 1 /\ i <= Len(s) THEN s[i] ELSE "EOF"

RECURSIVE SkipWs(_, _)
SkipWs(s, i) == IF At(s, i) \in Whitespace THEN SkipWs(s, i + 1) ELSE i

\* The index after the run of digits that starts at i.
RECURSIVE DigitsEnd(_, _)
DigitsEnd(s, i) == IF At(s, i) \in Digits THEN DigitsEnd(s, i + 1) ELSE i

\* The characters an escape stands for, inside a string literal.  (The
\* escapes b, f, r, t and uXXXX stand for characters outside the model's
\* alphabet and are not modelled.)
Unescaped(c) == IF c = "n" THEN NL ELSE c

\* A string literal from i, the index after its opening quote (strict mode:
\* a raw control character ends the parse).
RECURSIVE ScanString(_, _, _)
ScanString(s, i, acc) ==
  IF i > Len(s) THEN ScanFail
  ELSE IF s[i] = DQ THEN Scanned(JStr(acc), i + 1)
  ELSE IF s[i] = BS THEN
         IF At(s, i + 1) \in {DQ, BS, "/", "n"}
         THEN ScanString(s, i + 2, Append(acc, Unescaped(s[i + 1])))
         ELSE ScanFail
  ELSE IF s[i] \in {NL, "\t", "\r"} THEN ScanFail
  ELSE ScanString(s, i + 1, Append(acc, s[i]))

\* A number from i: -?(0|[1-9][0-9]*)(\.[0-9]+)?  (exponents, NaN and the
\* infinities are not modelled).
ScanNumber(s, i) ==
  LET j == IF At(s, i) = "-" THEN i + 1 ELSE i
      intEnd == IF At(s, j) = "0" THEN j + 1 ELSE DigitsEnd(s, j)
      fracEnd == IF At(s, intEnd) = "." /\ At(s, intEnd + 1) \in Digits
                 THEN DigitsEnd(s, intEnd + 1)
                 ELSE intEnd
  IN  IF intEnd = j THEN ScanFail
      ELSE IF fracEnd > intEnd THEN Scanned(JFloat(SubSeq(s, i, fracEnd - 1)), fracEnd)
      ELSE Scanned(JInt((IF j > i THEN -1 ELSE 1) * DigitsToNat(SubSeq(s, j, intEnd - 1))),
                   intEnd)

Matches(s, i, lit) == i + Len(lit) - 1 <= Len(s) /\ SubSeq(s, i, i + Len(lit) - 1) = lit

RECURSIVE ScanValue(_, _)
RECURSIVE ScanItems(_, _, _)
RECURSIVE ScanMembers(_, _, _)

\* scan_once: the value that starts at i.
ScanValue(s, i) ==
  LET c == At(s, i)
  IN  IF c = DQ THEN ScanString(s, i + 1, <<>>)
      ELSE IF c = "{" THEN
             LET j == SkipWs(s, i + 1)
             IN  IF At(s, j) = "}" THEN Scanned(JDict(<<>>, <<>>), j + 1)
                 ELSE ScanMembers(s, j, JDict(<<>>, <<>>))
      ELSE IF c = "[" THEN
             LET j == SkipWs(s, i + 1)
             IN  IF At(s, j) = "]" THEN Scanned(JList(<<>>), j + 1)
                 ELSE ScanItems(s, j, <<>>)
      ELSE IF Matches(s, i, L_null) THEN Scanned(JNull, i + 4)
      ELSE IF Matches(s, i, L_true) THEN Scanned(JBool(TRUE), i + 4)
      ELSE IF Matches(s, i, L_false) THEN Scanned(JBool(FALSE), i + 5)
      ELSE ScanNumber(s, i)

\* The items of an array from i, the index of the next item.
ScanItems(s, i, acc) ==
  LET r == ScanValue(s, i)
      j == SkipWs(s, r.end)
  IN  IF ~r.ok THEN ScanFail
      ELSE IF At(s, j) = "]" THEN Scanned(JList(Append(acc, r.val)), j + 1)
      ELSE IF At(s, j) = "," THEN ScanItems(s, SkipWs(s, j + 1), Append(acc, r.val))
      ELSE ScanFail

\* The members of an object from i, the index of the next key.
ScanMembers(s, i, acc) ==
  IF At(s, i) # DQ THEN ScanFail
  ELSE LET k == ScanString(s, i + 1, <<>>)
           c == SkipWs(s, k.end)
           r == ScanValue(s, SkipWs(s, c + 1))
           j == SkipWs(s, r.end)
       IN  IF ~k.ok \/ At(s, c) # ":" THEN ScanFail
           ELSE IF ~r.ok THEN ScanFail
           ELSE IF At(s, j) = "}" THEN Scanned(Put(acc, k.val.s, r.val), j + 1)
           ELSE IF At(s, j) = "," THEN ScanMembers(s, SkipWs(s, j + 1), Put(acc, k.val.s, r.val))
           ELSE ScanFail

\* json.loads(s): ok is FALSE where it raises JSONDecodeError (no value, or
\* extra data after the value).
JsonLoads(s) ==
  LET r == ScanValue(s, SkipWs(s, 1))
  IN  IF r.ok /\ SkipWs(s, r.end) = Len(s) + 1 THEN r ELSE ScanFail

\* ------------------------------------------------- Python's renderings

Py_True == <<"T", "r", "u", "e">>
Py_False == <<"F", "a", "l", "s", "e">>
Py_None == <<"N", "o", "n", "e">>

\* repr() of a str: single quotes, unless the text holds a single quote and
\* no double quote; backslash, newline and the quote in use are escaped.
PyReprStr(s) ==
  LET q == IF (\E j \in 1..Len(s) : s[j] = SQ) /\ ~(\E j \in 1..Len(s) : s[j] = DQ)
           THEN DQ ELSE SQ
      esc(c) == IF c = BS THEN <<BS, BS>>
                ELSE IF c = NL THEN <<BS, "n">>
                ELSE IF c = q THEN <<BS, q>>
                ELSE <<c>>
  IN  <<q>> \o Concat([j \in 1..Len(s) |-> esc(s[j])]) \o <<q>>

\* repr() of a parsed JSON value.
RECURSIVE PyRepr(_)
PyRepr(v) ==
  CASE v.t = "null" -> Py_None
    [] v.t = "bool" -> (IF v.b THEN Py_True ELSE Py_False)
    [] v.t = "int" -> IntToStr(v.n)
    [] v.t = "float" -> v.s
    [] v.t = "str" -> PyReprStr(v.s)
    [] v.t = "list" ->
         <<"[">> \o Join(<<",", " ">>, [j \in 1..Len(v.items) |-> PyRepr(v.items[j])]) \o <<"]">>
    [] v.t = "dict" ->
         <<"{">> \o Join(<<",", " ">>, [j \in 1..Len(v.keys) |->
                      PyReprStr(v.keys[j]) \o <<":", " ">> \o PyRepr(v.vals[j])])
         \o <<"}">>

\* str() of a parsed JSON value, as print() and an f-string render it.
PyStr(v) == IF v.t = "str" THEN v.s ELSE PyRepr(v)

\* bool() of a parsed JSON value.
Truthy(v) ==
  CASE v.t = "null" -> FALSE
    [] v.t = "bool" -> v.b
    [] v.t = "int" -> v.n # 0
    [] v.t = "float" -> \E j \in 1..Len(v.s) : v.s[j] \in Digits \ {"0"}
    [] v.t = "str" -> v.s # <<>>
    [] v.t = "list" -> v.items # <<>>
    [] v.t = "dict" -> v.keys # <<>>

\* Whether iter(v) exists, and the values it yields: the items of a list,
\* the characters of a str, the keys of a dict.
Iterable(v) == v.t \in {"list", "str", "dict"}

IterItems(v) ==
  CASE v.t = "list" -> v.items
    [] v.t = "str" -> [j \in 1..Len(v.s) |-> JStr(<<v.s[j]>>)]
    [] v.t = "dict" -> [j \in 1..Len(v.keys) |-> JStr(v.keys[j])]
    [] OTHER -> <<>>

\* int(text), as argparse's type=int applies it to --score: an optional
\* sign and at least one digit (surrounding blanks and underscores, which
\* int() also takes, are outside the model's score tokens).
PyIntOk(s) ==
  LET j == IF At(s, 1) \in {"-", "+"} THEN 2 ELSE 1
  IN  j <= Len(s) /\ DigitsEnd(s, j) = Len(s) + 1

PyIntVal(s) ==
  LET j == IF At(s, 1) \in {"-", "+"} THEN 2 ELSE 1
  IN  (IF At(s, 1) = "-" THEN -1 ELSE 1) * DigitsToNat(SubSeq(s, j, Len(s)))

\* -------------------------------------------------- the shell escaping

\* The escaping with the newline step taken first: the backslash it writes
\* is then doubled.
BashEscapeNewlineFirst(s) ==
  Replace(Replace(Replace(s, <<NL>>, <<BS, "n">>), <<BS>>, <<BS, BS>>),
          <<SQ>>, <<SQ, BS, SQ, SQ>>)

\* question.replace('\\', '\\\\').replace("'", "'\\''").replace('\n', '\\n')
BashEscape(s) ==
  Replace(Replace(Replace(s, <<BS>>, <<BS, BS>>), <<SQ>>, <<SQ, BS, SQ, SQ>>),
          <<NL>>, <<BS, "n">>)

\* ---------------------------------------------------------- output texts

P_IS_AMBIGUOUS == <<"I", "S", "_", "A", "M", "B", "I", "G", "U", "O", "U", "S", "=">>
P_AMBIGUITY_SCORE == <<"A", "M", "B", "I", "G", "U", "I", "T", "Y", "_", "S", "C", "O", "R", "E", "=">>
P_REASONS == <<"R", "E", "A", "S", "O", "N", "S", "=">>
P_QUESTION_COUNT == <<"Q", "U", "E", "S", "T", "I", "O", "N", "_", "C", "O", "U", "N", "T", "=">>
P_QUESTION == <<"Q", "U", "E", "S", "T", "I", "O", "N", "_">>
P_ORIGINAL_PROMPT == <<"O", "R", "I", "G", "I", "N", "A", "L", "_", "P", "R", "O", "M", "P", "T", "=">>

\* parser.print_help(): the usage text (its first word stands for it).
HelpText == <<"u", "s", "a", "g", "e", ":">>

\* The diagnostics written to standard error.
ErrUsage == "usage: json-helper.py encode ... error: argument --score: invalid int value"
ErrInvalidJson == "Error: Invalid JSON"
ErrFieldNotFound == "Error: Field not found in JSON"
ErrAttributeError == "Traceback (most recent call last): AttributeError"
ErrTypeError == "Traceback (most recent call last): TypeError"

\* ------------------------------------------------------------ the inputs

\* Most elements of a list handed to extract.
MaxItems == 2

\* All sequences over S of length at most k.
RECURSIVE SeqsUpTo(_, _)
SeqsUpTo(S, k) ==
  IF k = 0 THEN {<<>>}
  ELSE LET T == SeqsUpTo(S, k - 1)
       IN  T \cup {Append(t, e) : t \in {u \in T : Len(u) = k - 1}, e \in S}

\* A command line after argparse has split it: the subcommand ("none" when
\* there is none) and its arguments as typed; has_json tells whether the
\* positional json_string was given.
Argv(command, is_ambiguous, score, reasons_, questions_, prompt, has_json, json_string, field) ==
  [command |-> command, is_ambiguous |-> is_ambiguous, score |-> score,
   reasons |-> reasons_, questions |-> questions_, prompt |-> prompt,
   has_json |-> has_json, json_string |-> json_string, field |-> field]

NoArgv == Argv("none", <<>>, <<>>, <<>>, <<>>, <<>>, FALSE, <<>>, <<>>)

AmbiguousTokens == {L_true, L_false, Py_True}

ScoreTokens == {<<"7">>, <<"-", "1", "2">>, <<"0", "7">>, <<"a", "b", "c">>, <<"1", ".", "5">>}

QuestionTexts == {<<"n", SQ>>, <<BS, "n", NL, DQ>>}

QuestionLists == SeqsUpTo(QuestionTexts, MaxQuestions)

ReasonLists == {<<>>, <<<<"n">>, <<"n", SQ>>>>}

PromptTexts == {<<>>, <<SQ, BS, NL>>}

EncodeArgvs ==
  {Argv("encode", a, sc, r, q, p, FALSE, <<>>, <<>>) :
     a \in AmbiguousTokens, sc \in ScoreTokens, r \in ReasonLists,
     q \in QuestionLists, p \in PromptTexts}

StrList(ts) == JList([j \in 1..Len(ts) |-> JStr(ts[j])])

\* An object of the analysis record's fields; each argument is <<>> (the
\* field is omitted) or <<v>> (the field is v).
MkDoc(a, sc, r, q, p) ==
  JDict((IF a = <<>> THEN <<>> ELSE <<K_is_ambiguous>>)
        \o (IF sc = <<>> THEN <<>> ELSE <<K_ambiguity_score>>)
        \o (IF r = <<>> THEN <<>> ELSE <<K_reasons>>)
        \o (IF q = <<>> THEN <<>> ELSE <<K_questions>>)
        \o (IF p = <<>> THEN <<>> ELSE <<K_original_prompt>>),
        a \o sc \o r \o q \o p)

Opt(S) == {<<>>} \cup {<<v>> : v \in S}

\* Analysis records with any subset of the fields omitted.
RecordDocs ==
  {MkDoc(a, sc, r, q, p) :
     a \in Opt({JBool(TRUE), JBool(FALSE)}),
     sc \in Opt({JInt(7), JInt(-12)}),
     r \in Opt({StrList(rl) : rl \in ReasonLists}),
     q \in Opt({StrList(ql) : ql \in QuestionLists}),
     p \in Opt({JStr(t) : t \in PromptTexts})}

\* Objects with one field of another type or content, alone and beside
\* well-typed fields.
OddDocs ==
  LET odd ==
        {MkDoc(<<v>>, <<>>, <<>>, <<>>, <<>>) : v \in {JStr(<<"n">>), JInt(0), JNull}}
        \cup {MkDoc(<<>>, <<v>>, <<>>, <<>>, <<>>) :
                v \in {JStr(<<"a", "b">>), JNull, JBool(TRUE), JFloat(<<"1", ".", "5">>),
                       JList(<<JInt(1), JStr(<<"n">>)>>)}}
        \cup {MkDoc(<<>>, <<>>, <<v>>, <<>>, <<>>) :
                v \in {StrList(<<<<"n", NL, "n">>>>), JInt(5), JList(<<JInt(1)>>),
                       JStr(<<"n", "n">>), JDict(<<<<"a">>, <<"b">>>>, <<JInt(1), JInt(2)>>)}}
        \cup {MkDoc(<<>>, <<>>, <<>>, <<v>>, <<>>) :
                v \in {JInt(5), JList(<<JInt(1)>>), JList(<<JStr(<<"n">>), JNull>>),
                       JStr(<<"n", SQ>>), JNull}}
        \cup {MkDoc(<<>>, <<>>, <<>>, <<>>, <<v>>) : v \in {JNull, JInt(5), JList(<<>>)}}
      full == MkDoc(<<JBool(TRUE)>>, <<JInt(7)>>, <<StrList(<<<<"n">>>>)>>,
                    <<StrList(<<<<"n", SQ>>>>)>>, <<JStr(<<"n">>)>>)
      \* d's fields over those of full
      over(d) == JDict(full.keys, [j \in 1..Len(full.keys) |->
                   IF HasKey(d, full.keys[j]) THEN Lookup(d, full.keys[j]) ELSE full.vals[j]])
  IN  odd \cup {over(d) : d \in odd}

\* Documents that are no object.
NonObjectDocs == {JList(<<JInt(1)>>), JInt(5), JStr(<<"n">>), JNull, JBool(TRUE)}

\* Objects with one question, or the prompt, over every text of the bound.
EscapeDocs ==
  {MkDoc(<<>>, <<>>, <<>>, <<StrList(<<t>>)>>, <<>>) : t \in Texts(MaxStrLen)}
  \cup {MkDoc(<<>>, <<>>, <<>>, <<>>, <<JStr(t)>>) : t \in Texts(MaxStrLen)}

\* Texts json.loads rejects.
MalformedTexts ==
  {<<>>, <<"{">>, <<"{", "n", "o", "t", " ", "v", "a", "l", "i", "d">>,
   <<"[", "1", ",", "]">>, <<"{", "}", "{", "}">>, <<DQ, NL, DQ>>}

DecodeTexts ==
  {JsonDumps(d) : d \in RecordDocs \cup OddDocs \cup NonObjectDocs \cup EscapeDocs}
  \cup MalformedTexts

\* The field extract is asked for.
FieldA == <<"a">>

ExtractItems ==
  {JBool(TRUE), JBool(FALSE), JNull, JInt(3), JFloat(<<"1", ".", "5">>), JStr(<<"n", NL>>),
   JDict(<<<<"b">>>>, <<JInt(2)>>), JList(<<JInt(1), JInt(2)>>)}

ExtractDocs ==
  {JDict(<<FieldA>>, <<v>>) : v \in ExtractItems \cup {JList(l) : l \in SeqsUpTo(ExtractItems, MaxItems)}}
  \cup {JDict(<<<<"b">>>>, <<JInt(1)>>), JDict(<<>>, <<>>)}
  \cup {JInt(5), JNull, JStr(<<"a">>), JStr(<<"n">>), JList(<<JStr(<<"a">>)>>), JList(<<JInt(1)>>)}

ExtractTexts == {JsonDumps(d) : d \in ExtractDocs} \cup MalformedTexts

\* What waits on standard input when the document is given as an argument.
OtherStdin == <<"{", "}">>

\* A document handed over as the positional argument, or on standard input.
DocArgvs(command, field, texts) ==
  {[argv |-> Argv(command, <<>>, <<>>, <<>>, <<>>, <<>>, TRUE, d, field), stdin |-> OtherStdin] :
     d \in texts}
  \cup {[argv |-> Argv(command, <<>>, <<>>, <<>>, <<>>, <<>>, FALSE, <<>>, field), stdin |-> d] :
          d \in texts}

Invocations ==
  {[argv |-> a, stdin |-> <<>>] : a \in EncodeArgvs \cup {NoArgv}}
  \cup DocArgvs("decode", <<>>, DecodeTexts)
  \cup DocArgvs("extract", FieldA, ExtractTexts)

\* ------------------------------------------------------------- the state

VARIABLES
  argv,        \* the command line of the running process
  stdin,       \* the text waiting on its standard input
  stdin_reads, \* how many times sys.stdin.read() ran
  pc,          \* where the process is; "exit" once it ended
  json_str,    \* main's json_str
  data,        \* the parsed document
  questions,   \* decode_json's questions
  i,           \* decode_json's loop index
  stdout,      \* the texts printed, in order
  stderr,      \* the diagnostics written, in order
  status,      \* the exit status (read once pc = "exit")
  upstream     \* the command line of the process whose output is on stdin

vars == <<argv, stdin, stdin_reads, pc, json_str, data, questions, i, stdout, stderr, status, upstream>>

\* A process starts.
Start(inv, up) ==
  /\ argv = inv.argv
  /\ stdin = inv.stdin
  /\ stdin_reads = 0
  /\ pc = "main"
  /\ json_str = <<>>
  /\ data = JNull
  /\ questions = JNull
  /\ i = 0
  /\ stdout = <<>>
  /\ stderr = <<>>
  /\ status = 0
  /\ upstream = up

Init == \E inv \in Invocations : Start(inv, NoArgv)

\* The process ends with the given exit status.
Exit(code) == pc' = "exit" /\ status' = code

\* An exception no handler catches: the traceback goes to standard error and
\* the interpreter exits with status 1.
Raise(err) == stderr' = Append(stderr, err) /\ Exit(1)

print(text) == stdout' = Append(stdout, text)

\* ------------------------------------------------------------------ main

\* parse_args() rejects a --score that int() does not take: argparse writes
\* the usage and the error to standard error and exits with status 2.
main_argparse_error ==
  /\ pc = "main"
  /\ argv.command = "encode"
  /\ ~PyIntOk(argv.score)
  /\ stderr' = Append(stderr, ErrUsage)
  /\ Exit(2)
  /\ UNCHANGED <<argv, stdin, stdin_reads, json_str, data, questions, i, stdout, upstream>>

\* No subcommand: the help goes to standard output and the status is 1.
main_print_help ==
  /\ pc = "main"
  /\ argv.command = "none"
  /\ print(HelpText)
  /\ Exit(1)
  /\ UNCHANGED <<argv, stdin, stdin_reads, json_str, data, questions, i, stderr, upstream>>

\* The record with is_ambiguous taken as the truth value of the token: true
\* for every token that is not empty.
EncodeDataTruthyToken(a) ==
  JDict(<<K_is_ambiguous, K_ambiguity_score, K_reasons, K_questions, K_original_prompt>>,
        <<JBool(a.is_ambiguous # <<>>), JInt(PyIntVal(a.score)), StrList(a.reasons),
          StrList(a.questions), JStr(a.prompt)>>)

\* The record encode_analysis builds; score is the int argparse made of the
\* token, so int(score) returns it and the except branch is never taken.
EncodeData(a) ==
  JDict(<<K_is_ambiguous, K_ambiguity_score, K_reasons, K_questions, K_original_prompt>>,
        <<JBool(a.is_ambiguous = L_true), JInt(PyIntVal(a.score)), StrList(a.reasons),
          StrList(a.questions), JStr(a.prompt)>>)

encode_analysis ==
  /\ pc = "main"
  /\ argv.command = "encode"
  /\ PyIntOk(argv.score)
  /\ data' = EncodeData(argv)
  /\ print(JsonDumpsIndent2(data'))
  /\ Exit(0)
  /\ UNCHANGED <<argv, stdin, stdin_reads, json_str, questions, i, stderr, upstream>>

\* Whether Python takes the positional argument as given: None and the
\* empty string are both false.
PositionalTruthy(a) == a.has_json /\ a.json_string # <<>>

\* json_str = args.json_string or sys.stdin.read()
main_read_input ==
  /\ pc = "main"
  /\ argv.command \in {"decode", "extract"}
  /\ IF PositionalTruthy(argv)
     THEN json_str' = argv.json_string /\ stdin_reads' = stdin_reads
     ELSE json_str' = stdin /\ stdin_reads' = stdin_reads + 1
  /\ pc' = IF argv.command = "decode" THEN "decode_json" ELSE "extract_field"
  /\ UNCHANGED <<argv, stdin, data, questions, i, stdout, stderr, status, upstream>>

\* ----------------------------------------------------------- decode_json

\* data = json.loads(json_str), and the handler of JSONDecodeError.
decode_json_loads ==
  /\ pc = "decode_json"
  /\ LET r == JsonLoads(json_str)
     IN  IF r.ok
         THEN data' = r.val /\ pc' = "is_ambiguous" /\ UNCHANGED <<stderr, status>>
         ELSE stderr' = Append(stderr, ErrInvalidJson) /\ Exit(1) /\ UNCHANGED data
  /\ UNCHANGED <<argv, stdin, stdin_reads, json_str, questions, i, stdout, upstream>>

\* The first data.get raises AttributeError when the document is no object.
decode_is_ambiguous ==
  /\ pc = "is_ambiguous"
  /\ IF data.t # "dict"
     THEN Raise(ErrAttributeError) /\ UNCHANGED stdout
     ELSE /\ print(P_IS_AMBIGUOUS
                   \o (IF Truthy(Get(data, K_is_ambiguous, JBool(FALSE)))
                       THEN L_true ELSE L_false))
          /\ pc' = "ambiguity_score"
          /\ UNCHANGED <<stderr, status>>
  /\ UNCHANGED <<argv, stdin, stdin_reads, json_str, data, questions, i, upstream>>

decode_ambiguity_score ==
  /\ pc = "ambiguity_score"
  /\ print(P_AMBIGUITY_SCORE \o PyStr(Get(data, K_ambiguity_score, JInt(0))))
  /\ pc' = "reasons"
  /\ UNCHANGED <<argv, stdin, stdin_reads, json_str, data, questions, i, stderr, status, upstream>>

\* ' '.join(reasons) raises TypeError unless reasons is iterable and yields
\* only strings.
decode_reasons ==
  /\ pc = "reasons"
  /\ LET reasons == Get(data, K_reasons, JList(<<>>))
         items == IterItems(reasons)
     IN  IF Iterable(reasons) /\ \A j \in 1..Len(items) : items[j].t = "str"
         THEN /\ print(P_REASONS \o Join(<<" ">>, [j \in 1..Len(items) |-> items[j].s]))
              /\ pc' = "question_count"
              /\ UNCHANGED <<stderr, status>>
         ELSE Raise(ErrTypeError) /\ UNCHANGED stdout
  /\ UNCHANGED <<argv, stdin, stdin_reads, json_str, data, questions, i, upstream>>

\* len(questions) raises TypeError on a value that has no length.
decode_question_count ==
  /\ pc = "question_count"
  /\ questions' = Get(data, K_questions, JList(<<>>))
  /\ IF Iterable(questions')
     THEN /\ print(P_QUESTION_COUNT \o IntToStr(Len(IterItems(questions'))))
          /\ pc' = "questions"
          /\ UNCHANGED <<stderr, status>>
     ELSE Raise(ErrTypeError) /\ UNCHANGED stdout
  /\ i' = 0
  /\ UNCHANGED <<argv, stdin, stdin_reads, json_str, data, upstream>>

\* One turn of the loop; question.replace raises AttributeError on a value
\* that is no string.
decode_question ==
  /\ pc = "questions"
  /\ i < Len(IterItems(questions))
  /\ LET question == IterItems(questions)[i + 1]
     IN  IF question.t = "str"
         THEN /\ print(P_QUESTION \o IntToStr(i) \o <<"=", SQ>>
                       \o BashEscape(question.s) \o <<SQ>>)
              /\ i' = i + 1
              /\ UNCHANGED <<pc, stderr, status>>
         ELSE Raise(ErrAttributeError) /\ UNCHANGED <<stdout, i>>
  /\ UNCHANGED <<argv, stdin, stdin_reads, json_str, data, questions, upstream>>

\* After the loop; prompt.replace raises AttributeError on a value that is
\* no string.
decode_original_prompt ==
  /\ pc = "questions"
  /\ i = Len(IterItems(questions))
  /\ LET prompt == Get(data, K_original_prompt, JStr(<<>>))
     IN  IF prompt.t = "str"
         THEN /\ print(P_ORIGINAL_PROMPT \o <<SQ>> \o BashEscape(prompt.s) \o <<SQ>>)
              /\ Exit(0)
              /\ UNCHANGED stderr
         ELSE Raise(ErrAttributeError) /\ UNCHANGED stdout
  /\ UNCHANGED <<argv, stdin, stdin_reads, json_str, data, questions, i, upstream>>

\* ---------------------------------------------------------- extract_field

\* f in s, of two strings.
SubText(f, s) == \E k \in 0..(Len(s) - Len(f)) : SubSeq(s, k + 1, k + Len(f)) = f

\* field_name in data, where data supports it.
Contains(d, f) ==
  CASE d.t = "dict" -> HasKey(d, f)
    [] d.t = "list" -> \E j \in 1..Len(d.items) : d.items[j] = JStr(f)
    [] d.t = "str" -> SubText(f, d.s)
    [] OTHER -> FALSE

\* The texts extract_field prints for a field's value.
ExtractLines(value) ==
  CASE value.t = "bool" -> <<IF value.b THEN L_true ELSE L_false>>
    [] value.t \in {"int", "float"} -> <<PyStr(value)>>
    [] value.t = "str" -> <<value.s>>
    [] value.t = "list" ->
         [j \in 1..Len(value.items) |->
            IF value.items[j].t \in {"dict", "list"}
            THEN JsonDumps(value.items[j])
            ELSE PyStr(value.items[j])]
    [] value.t = "null" -> <<L_null>>
    [] OTHER -> <<JsonDumps(value)>>

\* The whole of extract_field: "in" raises TypeError on a number, a boolean
\* or null, and data[field_name] raises it on a list or a string.
extract_field ==
  /\ pc = "extract_field"
  /\ LET r == JsonLoads(json_str)
     IN  IF ~r.ok
         THEN stderr' = Append(stderr, ErrInvalidJson) /\ Exit(1) /\ UNCHANGED <<data, stdout>>
         ELSE /\ data' = r.val
              /\ IF ~Iterable(r.val)
                 THEN Raise(ErrTypeError) /\ UNCHANGED stdout
                 ELSE IF ~Contains(r.val, argv.field)
                 THEN stderr' = Append(stderr, ErrFieldNotFound) /\ Exit(1) /\ UNCHANGED stdout
                 ELSE IF r.val.t # "dict"
                 THEN Raise(ErrTypeError) /\ UNCHANGED stdout
                 ELSE /\ stdout' = stdout \o ExtractLines(Lookup(r.val, argv.field))
                      /\ Exit(0)
                      /\ UNCHANGED stderr
  /\ UNCHANGED <<argv, stdin, stdin_reads, json_str, questions, i, upstream>>

\* ------------------------------------------------------------ the pipeline

\* What a reader of standard output receives: each printed text and its
\* newline.
Stream(out) == Concat([j \in 1..Len(out) |-> Append(out[j], NL)])

\* encode ... | decode: once the encoder has ended with status 0, decode runs
\* without a positional argument on what the encoder wrote.
pipe_encode_to_decode ==
  /\ pc = "exit"
  /\ argv.command = "encode"
  /\ status = 0
  /\ argv' = Argv("decode", <<>>, <<>>, <<>>, <<>>, <<>>, FALSE, <<>>, <<>>)
  /\ stdin' = Stream(stdout)
  /\ stdin_reads' = 0
  /\ pc' = "main"
  /\ json_str' = <<>>
  /\ data' = JNull
  /\ questions' = JNull
  /\ i' = 0
  /\ stdout' = <<>>
  /\ stderr' = <<>>
  /\ status' = 0
  /\ upstream' = argv

Next ==
  \/ main_argparse_error
  \/ main_print_help
  \/ encode_analysis
  \/ main_read_input
  \/ decode_json_loads
  \/ decode_is_ambiguous
  \/ decode_ambiguity_score
  \/ decode_reasons
  \/ decode_question_count
  \/ decode_question
  \/ decode_original_prompt
  \/ extract_field
  \/ pipe_encode_to_decode

Spec == Init /\ [][Next]_vars

\* ------------------------------------------------------------ the claims

Done == pc = "exit"

\* The field k of the object d, or the given value when d has none.
FieldOr(d, k, default) == IF HasKey(d, k) THEN Lookup(d, k) ELSE default

StartsWith(s, p) == Len(p) <= Len(s) /\ SubSeq(s, 1, Len(p)) = p

\* The lines of a stream: the texts its newlines end.
RECURSIVE SplitLines(_, _)
SplitLines(s, cur) ==
  IF s = <<>> THEN (IF cur = <<>> THEN <<>> ELSE <<cur>>)
  ELSE IF Head(s) = NL THEN <<cur>> \o SplitLines(Tail(s), <<>>)
  ELSE SplitLines(Tail(s), Append(cur, Head(s)))

\* What is between a line's prefix and its closing quote.
Quoted(line, prefix) == SubSeq(line, Len(prefix) + 1, Len(line) - 1)

IsStrList(v) == v.t = "list" /\ \A j \in 1..Len(v.items) : v.items[j].t = "str"

\* The document the command line supplies: the positional argument when there
\* is one, standard input otherwise.
Document == IF argv.has_json THEN argv.json_string ELSE stdin

\* The three escaping steps undone in reverse order, each by replacement.
ReverseUnescape(e) ==
  Replace(Replace(Replace(e, <<BS, "n">>, <<NL>>), <<SQ, BS, SQ, SQ>>, <<SQ>>),
          <<BS, BS>>, <<BS>>)

\* The escaping read back in one pass from the left.
RECURSIVE ScanUnescape(_)
ScanUnescape(e) ==
  IF e = <<>> THEN <<>>
  ELSE IF Matches(e, 1, <<BS, BS>>) THEN <<BS>> \o ScanUnescape(SubSeq(e, 3, Len(e)))
  ELSE IF Matches(e, 1, <<BS, "n">>) THEN <<NL>> \o ScanUnescape(SubSeq(e, 3, Len(e)))
  ELSE IF Matches(e, 1, <<SQ, BS, SQ, SQ>>) THEN <<SQ>> \o ScanUnescape(SubSeq(e, 5, Len(e)))
  ELSE <<Head(e)>> \o ScanUnescape(Tail(e))

HasBackslashN(s) == \E j \in 1..(Len(s) - 1) : s[j] = BS /\ s[j + 1] = "n"

QuestionPrefix(k) == P_QUESTION \o IntToStr(k) \o <<"=", SQ>>

PromptPrefix == P_ORIGINAL_PROMPT \o <<SQ>>

\* C1: for an object whose reasons and questions are lists of strings and
\* whose original_prompt is a string, a successful decode leaves exactly n+5
\* lines on standard output: IS_AMBIGUOUS, AMBIGUITY_SCORE, REASONS,
\* QUESTION_COUNT=n, QUESTION_0 .. QUESTION_{n-1} in order, ORIGINAL_PROMPT.
C1_DecodeWritesNPlus5Lines ==
  (/\ Done /\ argv.command = "decode" /\ status = 0 /\ data.t = "dict"
   /\ IsStrList(FieldOr(data, K_reasons, JList(<<>>)))
   /\ IsStrList(FieldOr(data, K_questions, JList(<<>>)))
   /\ FieldOr(data, K_original_prompt, JStr(<<>>)).t = "str")
  => LET L == SplitLines(Stream(stdout), <<>>)
         n == Len(FieldOr(data, K_questions, JList(<<>>)).items)
     IN  /\ Len(L) = n + 5
         /\ StartsWith(L[1], P_IS_AMBIGUOUS)
         /\ StartsWith(L[2], P_AMBIGUITY_SCORE)
         /\ StartsWith(L[3], P_REASONS)
         /\ L[4] = P_QUESTION_COUNT \o IntToStr(n)
         /\ \A k \in 1..n : StartsWith(L[4 + k], QuestionPrefix(k - 1))
         /\ StartsWith(L[n + 5], PromptPrefix)

\* C2: encode piped into decode recovers the inputs: IS_AMBIGUOUS is true
\* exactly when the token was "true", AMBIGUITY_SCORE is the original
\* integer, QUESTION_COUNT is the number of questions, and the i-th
\* QUESTION_<i> line reads back as the i-th question.
C2_EncodeDecodeRoundTrip ==
  (Done /\ argv.command = "decode" /\ upstream.command = "encode")
  => LET n == Len(upstream.questions)
         score == SubSeq(stdout[2], Len(P_AMBIGUITY_SCORE) + 1, Len(stdout[2]))
         count == SubSeq(stdout[4], Len(P_QUESTION_COUNT) + 1, Len(stdout[4]))
     IN  /\ status = 0
         /\ Len(stdout) = n + 5
         /\ stdout[1] = P_IS_AMBIGUOUS \o (IF upstream.is_ambiguous = L_true THEN L_true ELSE L_false)
         /\ StartsWith(stdout[2], P_AMBIGUITY_SCORE)
         /\ PyIntOk(score) /\ PyIntVal(score) = PyIntVal(upstream.score)
         /\ StartsWith(stdout[4], P_QUESTION_COUNT)
         /\ PyIntOk(count) /\ PyIntVal(count) = n
         /\ \A k \in 1..n :
              /\ StartsWith(stdout[4 + k], QuestionPrefix(k - 1))
              /\ ScanUnescape(Quoted(stdout[4 + k], QuestionPrefix(k - 1))) = upstream.questions[k]

\* A round trip of a true token, a negative score and two different
\* questions has ended.
C2_Witness ==
  /\ Done /\ argv.command = "decode" /\ upstream.command = "encode" /\ status = 0
  /\ upstream.is_ambiguous = L_true
  /\ upstream.score = <<"-", "1", "2">>
  /\ Len(upstream.questions) = 2
  /\ upstream.questions[1] # upstream.questions[2]

\* The question lines written so far and, once decode has ended well, the
\* prompt line: each as the pair of the text and what the line quotes.
EscapedSoFar ==
  IF argv.command = "decode" /\ data.t = "dict"
  THEN {<<IterItems(questions)[k].s, Quoted(stdout[4 + k], QuestionPrefix(k - 1))>> :
          k \in 1..(IF pc \in {"questions", "exit"} /\ Len(stdout) >= 4 THEN Len(stdout) - 4 ELSE 0)
                 \cap 1..Len(IterItems(questions))}
       \cup (IF Done /\ status = 0
             THEN {<<FieldOr(data, K_original_prompt, JStr(<<>>)).s, Quoted(stdout[Len(stdout)], PromptPrefix)>>}
             ELSE {})
  ELSE {}

\* C3 (as claimed): undoing the three replacements in reverse order gives
\* back every escaped question and prompt exactly.
C3_ReverseOrderUndoRecoversEveryText ==
  \A e \in EscapedSoFar : ReverseUnescape(e[2]) = e[1]

\* C3 (amended): undoing the three replacements in reverse order gives back
\* the text exactly when no backslash in it is followed by the letter n, and
\* only then; one pass from the left gives back every text.
C3_ReverseOrderUndoRecoversUnlessBackslashN ==
  \A e \in EscapedSoFar :
    /\ (ReverseUnescape(e[2]) = e[1]) <=> ~HasBackslashN(e[1])
    /\ ScanUnescape(e[2]) = e[1]

\* A question holding a backslash, a single quote and a newline has been
\* written and reads back.
C3_Witness ==
  /\ Done /\ status = 0
  /\ \E e \in EscapedSoFar : e[1] = <<BS, SQ, NL>> /\ ReverseUnescape(e[2]) = e[1]
  /\ Len(stdout) = 6

\* C4: no run of encode, decode or extract ends with a non-zero status after
\* it has written to standard output.
C4_NoOutputBeforeFailure ==
  (Done /\ argv.command \in {"encode", "decode", "extract"} /\ status # 0) => stdout = <<>>

InvalidScore == argv.command = "encode" /\ ~PyIntOk(argv.score)

MalformedDocument == argv.command \in {"decode", "extract"} /\ ~JsonLoads(Document).ok

MissingField ==
  /\ argv.command = "extract"
  /\ JsonLoads(Document).ok
  /\ JsonLoads(Document).val.t = "dict"
  /\ ~HasKey(JsonLoads(Document).val, argv.field)

\* C5: an invalid score, a missing field and a malformed document each end
\* the run with a diagnostic on standard error, a non-zero status and
\* nothing on standard output.
C5_ErrorsAbortWithoutOutput ==
  (Done /\ (InvalidScore \/ MalformedDocument \/ MissingField))
  => (stderr # <<>> /\ status # 0 /\ stdout = <<>>)

\* C6: the exit status is 1 on an invalid score, on a parse failure and on a
\* missing field, and 0 on success; there is no other status.
C6_ExitStatusIsZeroOrOne ==
  (Done /\ argv.command \in {"encode", "decode", "extract"})
  => /\ (InvalidScore \/ MalformedDocument \/ MissingField) => status = 1
     /\ status \in {0, 1}

\* C7: an AMBIGUITY_SCORE line carries an integer: the document's
\* ambiguity_score when the field is there, 0 when it is not; no line is
\* written for a score that is no integer.
C7_ScoreLineIsInteger ==
  (argv.command = "decode" /\ data.t = "dict" /\ Len(stdout) >= 2)
  => LET sc == FieldOr(data, K_ambiguity_score, JInt(0))
     IN  sc.t = "int" /\ stdout[2] = P_AMBIGUITY_SCORE \o IntToStr(sc.n)

\* How extract renders a scalar that is the field's own value.
TopLevelScalar(v) ==
  CASE v.t = "bool" -> (IF v.b THEN L_true ELSE L_false)
    [] v.t = "null" -> L_null
    [] v.t = "int" -> IntToStr(v.n)
    [] v.t = "float" -> v.s
    [] v.t = "str" -> v.s

\* C8: a list is extracted one line per element, in order; a scalar element
\* is rendered like a top-level scalar (true / false, null, the number, the
\* string), an object or a list as JSON text on one line.
C8_ListElementsLikeTopLevel ==
  (/\ Done /\ argv.command = "extract" /\ status = 0
   /\ data.t = "dict" /\ FieldOr(data, argv.field, JNull).t = "list")
  => LET items == Lookup(data, argv.field).items
     IN  /\ Len(stdout) = Len(items)
         /\ \A j \in 1..Len(items) :
              IF items[j].t \in {"dict", "list"}
              THEN JsonLoads(stdout[j]) = Scanned(items[j], Len(stdout[j]) + 1)
                   /\ \A k \in 1..Len(stdout[j]) : stdout[j][k] # NL
              ELSE stdout[j] = TopLevelScalar(items[j])

\* The fields of the parsed object have the types of the analysis record.
RecordTyped ==
  /\ FieldOr(data, K_is_ambiguous, JBool(FALSE)).t = "bool"
  /\ FieldOr(data, K_ambiguity_score, JInt(0)).t = "int"
  /\ IsStrList(FieldOr(data, K_reasons, JList(<<>>)))
  /\ IsStrList(FieldOr(data, K_questions, JList(<<>>)))
  /\ FieldOr(data, K_original_prompt, JStr(<<>>)).t = "str"

\* C9: decode of an object with any of the five fields omitted ends with
\* status 0; an omitted field gives IS_AMBIGUOUS=false, AMBIGUITY_SCORE=0,
\* REASONS=, QUESTION_COUNT=0 and no question line, ORIGINAL_PROMPT='', and
\* the line of a field that is there is that of its value.
C9_OmittedFieldsDefault ==
  (Done /\ argv.command = "decode" /\ JsonLoads(json_str).ok /\ data.t = "dict" /\ RecordTyped)
  => LET n == IF HasKey(data, K_questions) THEN Len(Lookup(data, K_questions).items) ELSE 0
     IN  /\ status = 0
         /\ stderr = <<>>
         /\ Len(stdout) = n + 5
         /\ stdout[1] = P_IS_AMBIGUOUS
                        \o (IF HasKey(data, K_is_ambiguous) /\ Lookup(data, K_is_ambiguous).b
                            THEN L_true ELSE L_false)
         /\ stdout[2] = P_AMBIGUITY_SCORE
                        \o (IF HasKey(data, K_ambiguity_score)
                            THEN IntToStr(Lookup(data, K_ambiguity_score).n) ELSE <<"0">>)
         /\ IF HasKey(data, K_reasons)
            THEN stdout[3] = P_REASONS
                             \o Join(<<" ">>, [j \in 1..Len(Lookup(data, K_reasons).items) |->
                                                 Lookup(data, K_reasons).items[j].s])
            ELSE stdout[3] = P_REASONS
         /\ stdout[4] = P_QUESTION_COUNT \o IntToStr(n)
         /\ \A k \in 1..n :
              /\ StartsWith(stdout[4 + k], QuestionPrefix(k - 1))
              /\ ScanUnescape(Quoted(stdout[4 + k], QuestionPrefix(k - 1)))
                 = Lookup(data, K_questions).items[k].s
         /\ StartsWith(stdout[n + 5], PromptPrefix)
         /\ IF HasKey(data, K_original_prompt)
            THEN ScanUnescape(Quoted(stdout[n + 5], PromptPrefix)) = Lookup(data, K_original_prompt).s
            ELSE stdout[n + 5] = PromptPrefix \o <<SQ>>

\* decode has ended on an object that has two questions and neither
\* is_ambiguous nor reasons nor original_prompt.
C9_Witness ==
  /\ Done /\ argv.command = "decode" /\ data.t = "dict" /\ RecordTyped
  /\ ~HasKey(data, K_is_ambiguous) /\ ~HasKey(data, K_reasons) /\ ~HasKey(data, K_original_prompt)
  /\ HasKey(data, K_questions) /\ Len(Lookup(data, K_questions).items) = 2
  /\ Len(stdout) = 7

\* C10: decode and extract parse the positional argument whenever one is
\* given (the empty string too) and then never read standard input; they
\* read standard input, once, only when none is given.
C10_PositionalArgumentIsTheDocument ==
  (argv.command \in {"decode", "extract"} /\ pc # "main")
  => IF argv.has_json
     THEN json_str = argv.json_string /\ stdin_reads = 0
     ELSE json_str = stdin /\ stdin_reads = 1
====
